---------------------------- MODULE Spec2Model ----------------------------
(***************************************************************************)
(* Crashify360: the total-loss decision engine (valuation_engine.py), its  *)
(* validation gate (validator.py) and the static configuration they read   *)
(* (config.py).                                                            *)
(*                                                                         *)
(* Representation.                                                         *)
(*  - A Python str that the code inspects character by character (vin,     *)
(*    policy_type, loss_type) is a tuple of one-character strings, so that *)
(*    strip(), upper() and lower() are computed and not tabulated.  Field  *)
(*    names, messages and labels, which the code only copies, are TLA+     *)
(*    strings.                                                             *)
(*  - Monetary inputs are integers (whole dollars), for which float() is   *)
(*    exact.  A fraction of config.THRESHOLDS is held as whole percent     *)
(*    (0.7 is 70), so a threshold, a decision margin and every comparison  *)
(*    against them is held in hundredths of a dollar: the arithmetic is    *)
(*    exact decimal arithmetic.                                            *)
(*  - Optional[T] is a set with at most one element: None is {}.           *)
(*  - A call that raises is an outcome whose field raised names the        *)
(*    exception; "none" means the call returned.                           *)
(*  - datetime.now() stamps and log lines are not part of the state.       *)
(***************************************************************************)
EXTENDS Integers, Sequences, FiniteSets, TLC

-----------------------------------------------------------------------------
(* Characters and the str methods the code calls.  The inputs are ASCII:   *)
(* upper() and lower() act on the 26 letters, strip() on the space.        *)

LowerLetters ==
    << "a","b","c","d","e","f","g","h","i","j","k","l","m",
       "n","o","p","q","r","s","t","u","v","w","x","y","z" >>

UpperLetters ==
    << "A","B","C","D","E","F","G","H","I","J","K","L","M",
       "N","O","P","Q","R","S","T","U","V","W","X","Y","Z" >>

Digits == { "0","1","2","3","4","5","6","7","8","9" }

Whitespace == { " ", "\t", "\n" }

UpperChar(c) ==
    IF \E i \in 1..26 : LowerLetters[i] = c
    THEN UpperLetters[CHOOSE i \in 1..26 : LowerLetters[i] = c]
    ELSE c

LowerChar(c) ==
    IF \E i \in 1..26 : UpperLetters[i] = c
    THEN LowerLetters[CHOOSE i \in 1..26 : UpperLetters[i] = c]
    ELSE c

upper(s) == [ i \in 1..Len(s) |-> UpperChar(s[i]) ]

lower(s) == [ i \in 1..Len(s) |-> LowerChar(s[i]) ]

RECURSIVE lstrip(_)
lstrip(s) ==
    IF s # << >> /\ Head(s) \in Whitespace THEN lstrip(Tail(s)) ELSE s

RECURSIVE rstrip(_)
rstrip(s) ==
    IF s # << >> /\ s[Len(s)] \in Whitespace
    THEN rstrip(SubSeq(s, 1, Len(s) - 1))
    ELSE s

strip(s) == rstrip(lstrip(s))

-----------------------------------------------------------------------------
(* The string literals of config.py and valuation_engine.py.               *)

client == << "c","l","i","e","n","t" >>

third_party == << "t","h","i","r","d","_","p","a","r","t","y" >>

commercial == << "c","o","m","m","e","r","c","i","a","l" >>

luxury == << "l","u","x","u","r","y" >>

comprehensive == << "c","o","m","p","r","e","h","e","n","s","i","v","e" >>

third_party_property == third_party \o << "_","p","r","o","p","e","r","t","y" >>

third_party_fire_theft ==
    third_party \o << "_","f","i","r","e","_","t","h","e","f","t" >>

-----------------------------------------------------------------------------
(* config.py                                                               *)

THRESHOLDS ==
    (client :> 70) @@ (third_party :> 70) @@ (commercial :> 65) @@ (luxury :> 75)

POLICY_TYPES ==
    { comprehensive, third_party_property, third_party_fire_theft, commercial }

LOSS_TYPES == { client, third_party }

VALIDATION_RULES ==
    [ min_policy_value       |-> 1000,
      max_policy_value       |-> 500000,
      min_salvage_value      |-> 0,
      min_repair_quote       |-> 0,
      max_repair_quote_ratio |-> 2 ]

get_threshold(policy_type) ==
    IF policy_type \in DOMAIN THRESHOLDS
    THEN THRESHOLDS[policy_type]
    ELSE THRESHOLDS[client]

-----------------------------------------------------------------------------
(* validator.py                                                            *)

None == { }

Some(x) == { x }

ValidationResult == [ errors |-> << >>, warnings |-> << >> ]

add_error(result, field, message) ==
    [ result EXCEPT !.errors = Append(@, [ field |-> field, message |-> message ]) ]

(* add_warning recording its entry among the errors.                       *)
add_warning_AsError(result, field, message) ==
    [ result EXCEPT !.errors = Append(@, [ field |-> field, message |-> message ]) ]

add_warning(result, field, message) ==
    [ result EXCEPT !.warnings = Append(@, [ field |-> field, message |-> message ]) ]

is_valid(result) == Len(result.errors) = 0

get_summary(result) ==
    IF is_valid(result)
    THEN [ passed |-> TRUE, count |-> Len(result.warnings), lines |-> << >> ]
    ELSE [ passed |-> FALSE, count |-> Len(result.errors), lines |-> result.errors ]

VinLength == 17

(* The character class with no letter left out.                            *)
VinAlphabetAllLetters ==
    Digits \cup { UpperLetters[i] : i \in 1..26 }

VinAlphabet ==
    Digits \cup { UpperLetters[i] : i \in (1..26) \ { 9, 15, 17 } }

validate_vin(vin) ==
    IF vin = << >> THEN FALSE
    ELSE LET v == upper(strip(vin))
         IN  IF Len(v) # VinLength THEN FALSE
             ELSE \A i \in 1..Len(v) : v[i] \in VinAlphabet

validate_monetary_value(value, field_name, min_value, max_value) ==
    IF value < 0
    THEN [ ok |-> FALSE, msg |-> "cannot be negative" ]
    ELSE IF \E m \in min_value : value < m
    THEN [ ok |-> FALSE, msg |-> "must be at least" ]
    ELSE IF \E m \in max_value : value > m
    THEN [ ok |-> FALSE, msg |-> "cannot exceed" ]
    ELSE [ ok |-> TRUE, msg |-> "" ]

validate_policy_type(policy_type) == lower(policy_type) \in POLICY_TYPES

validate_loss_type(loss_type) == lower(loss_type) \in LOSS_TYPES


(* The validation without the check of salvage against policy value.      *)
validate_total_loss_input_NoCrossCheck(vin, policy_type, policy_value, salvage_value, repair_quote, loss_type) ==
    LET r0 == ValidationResult
        r1 == IF ~ validate_vin(vin)
              THEN add_error(r0, "vin", "Invalid VIN format")
              ELSE r0
        r2 == IF ~ validate_policy_type(policy_type)
              THEN add_error(r1, "policy_type", "Invalid policy type")
              ELSE r1
        r3 == IF ~ validate_loss_type(loss_type)
              THEN add_error(r2, "loss_type", "Invalid loss type")
              ELSE r2
        pv == validate_monetary_value(policy_value, "Policy Value",
                  Some(VALIDATION_RULES.min_policy_value),
                  Some(VALIDATION_RULES.max_policy_value))
        r4 == IF ~ pv.ok THEN add_error(r3, "policy_value", pv.msg) ELSE r3
        sv == validate_monetary_value(salvage_value, "Salvage Value",
                  Some(VALIDATION_RULES.min_salvage_value), None)
        r5 == IF ~ sv.ok THEN add_error(r4, "salvage_value", sv.msg) ELSE r4
        rq == validate_monetary_value(repair_quote, "Repair Quote",
                  Some(VALIDATION_RULES.min_repair_quote), None)
        high == repair_quote >
                    policy_value * VALIDATION_RULES.max_repair_quote_ratio
        r6 == IF ~ rq.ok THEN add_error(r5, "repair_quote", rq.msg)
              ELSE IF high
              THEN add_warning(r5, "repair_quote", "Please verify")
              ELSE r5
    IN  IF rq.ok /\ high /\ policy_value = 0
        THEN [ raised |-> "ZeroDivisionError", outcome |-> None ]
        ELSE [ raised |-> "none", outcome |-> Some(r6) ]

(* One call of validate_total_loss_input on numeric monetary inputs, the   *)
(* optional contact fields left at their default None.  The rules run in   *)
(* the order of the code, each appending to the same result.  The warning  *)
(* message divides repair_quote by policy_value: with policy_value = 0 the *)
(* division raises ZeroDivisionError, which the except clause             *)
(* (ValueError, TypeError) does not catch.                                 *)
validate_total_loss_input(vin, policy_type, policy_value, salvage_value, repair_quote, loss_type) ==
    LET r0 == ValidationResult
        r1 == IF ~ validate_vin(vin)
              THEN add_error(r0, "vin", "Invalid VIN format")
              ELSE r0
        r2 == IF ~ validate_policy_type(policy_type)
              THEN add_error(r1, "policy_type", "Invalid policy type")
              ELSE r1
        r3 == IF ~ validate_loss_type(loss_type)
              THEN add_error(r2, "loss_type", "Invalid loss type")
              ELSE r2
        pv == validate_monetary_value(policy_value, "Policy Value",
                  Some(VALIDATION_RULES.min_policy_value),
                  Some(VALIDATION_RULES.max_policy_value))
        r4 == IF ~ pv.ok THEN add_error(r3, "policy_value", pv.msg) ELSE r3
        sv == validate_monetary_value(salvage_value, "Salvage Value",
                  Some(VALIDATION_RULES.min_salvage_value), None)
        r5 == IF ~ sv.ok THEN add_error(r4, "salvage_value", sv.msg)
              ELSE IF salvage_value > policy_value
              THEN add_error(r4, "salvage_value", "cannot exceed policy value")
              ELSE r4
        rq == validate_monetary_value(repair_quote, "Repair Quote",
                  Some(VALIDATION_RULES.min_repair_quote), None)
        high == repair_quote >
                    policy_value * VALIDATION_RULES.max_repair_quote_ratio
        r6 == IF ~ rq.ok THEN add_error(r5, "repair_quote", rq.msg)
              ELSE IF high
              THEN add_warning(r5, "repair_quote", "Please verify")
              ELSE r5
    IN  IF rq.ok /\ high /\ policy_value = 0
        THEN [ raised |-> "ZeroDivisionError", outcome |-> None ]
        ELSE [ raised |-> "none", outcome |-> Some(r6) ]

-----------------------------------------------------------------------------
(* valuation_engine.py                                                     *)

(* The result with the margin taken as threshold - repair_quote.           *)
ValuationResultMarginReversed(is_total_loss, threshold, policy_value, salvage_value, repair_quote, loss_type, policy_type, vin, calculation_method) ==
    [ is_total_loss        |-> is_total_loss,
      threshold            |-> threshold,
      policy_value         |-> policy_value,
      salvage_value        |-> salvage_value,
      repair_quote         |-> repair_quote,
      loss_type            |-> loss_type,
      policy_type          |-> policy_type,
      vin                  |-> vin,
      calculation_method   |-> calculation_method,
      threshold_percentage |-> IF threshold > 0
                               THEN << repair_quote * 100 * 100, threshold >>
                               ELSE << 0, 1 >>,
      decision_margin      |-> threshold - repair_quote * 100 ]

(* The result with the percentage computed without the threshold > 0 test. *)
ValuationResultUnguarded(is_total_loss, threshold, policy_value, salvage_value, repair_quote, loss_type, policy_type, vin, calculation_method) ==
    [ is_total_loss        |-> is_total_loss,
      threshold            |-> threshold,
      policy_value         |-> policy_value,
      salvage_value        |-> salvage_value,
      repair_quote         |-> repair_quote,
      loss_type            |-> loss_type,
      policy_type          |-> policy_type,
      vin                  |-> vin,
      calculation_method   |-> calculation_method,
      threshold_percentage |-> << repair_quote * 100 * 100, threshold >>,
      decision_margin      |-> repair_quote * 100 - threshold ]

(* ValuationResult.__init__.  threshold and decision_margin are in         *)
(* hundredths of a dollar; threshold_percentage is the exact quotient      *)
(* repair_quote / threshold * 100 as numerator and denominator.            *)
ValuationResult(is_total_loss, threshold, policy_value, salvage_value, repair_quote, loss_type, policy_type, vin, calculation_method) ==
    [ is_total_loss        |-> is_total_loss,
      threshold            |-> threshold,
      policy_value         |-> policy_value,
      salvage_value        |-> salvage_value,
      repair_quote         |-> repair_quote,
      loss_type            |-> loss_type,
      policy_type          |-> policy_type,
      vin                  |-> vin,
      calculation_method   |-> calculation_method,
      threshold_percentage |-> IF threshold > 0
                               THEN << repair_quote * 100 * 100, threshold >>
                               ELSE << 0, 1 >>,
      decision_margin      |-> repair_quote * 100 - threshold ]

to_dict(self) ==
    [ vin                  |-> self.vin,
      decision             |-> IF self.is_total_loss THEN "TOTAL LOSS"
                                                     ELSE "REPAIRABLE",
      loss_type            |-> self.loss_type,
      policy_type          |-> self.policy_type,
      policy_value         |-> self.policy_value,
      salvage_value        |-> self.salvage_value,
      repair_quote         |-> self.repair_quote,
      threshold            |-> self.threshold,
      threshold_percentage |-> self.threshold_percentage,
      decision_margin      |-> self.decision_margin,
      calculation_method   |-> self.calculation_method ]

(* The decision with the tie classified as a total loss.                  *)
MakeDecisionNonStrict(repair_quote, threshold) == repair_quote * 100 >= threshold

(* is_total_loss = repair_quote > threshold, the threshold in hundredths.  *)
MakeDecision(repair_quote, threshold) == repair_quote * 100 > threshold

(* The decision with the third-party threshold taken on the policy value.  *)
ComputeDecisionOnPolicyValue(vin, policy_type, policy_value, salvage_value, repair_quote, loss_type, validation) ==
    LET threshold_pct == get_threshold(policy_type)
        net_value     == policy_value - salvage_value
        threshold     == IF loss_type = client
                         THEN policy_value * threshold_pct
                         ELSE policy_value * threshold_pct
        calculation_method ==
            IF loss_type = client
            THEN [ pct |-> threshold_pct, basis |-> "of Policy Value" ]
            ELSE [ pct |-> threshold_pct,
                   basis |-> "of Net Value (Policy - Salvage)" ]
        is_total_loss == MakeDecision(repair_quote, threshold)
    IN  IF loss_type \notin { client, third_party }
        THEN [ raised |-> "ValueError", result |-> None, validation |-> None ]
        ELSE [ raised     |-> "none",
               result     |-> Some(ValuationResult(is_total_loss, threshold,
                                  policy_value, salvage_value, repair_quote,
                                  loss_type, policy_type, vin,
                                  calculation_method)),
               validation |-> Some(validation) ]

(* The decision once validation has passed or was skipped: lines 160-209.  *)
ComputeDecision(vin, policy_type, policy_value, salvage_value, repair_quote, loss_type, validation) ==
    LET threshold_pct == get_threshold(policy_type)
        net_value     == policy_value - salvage_value
        threshold     == IF loss_type = client
                         THEN policy_value * threshold_pct
                         ELSE net_value * threshold_pct
        calculation_method ==
            IF loss_type = client
            THEN [ pct |-> threshold_pct, basis |-> "of Policy Value" ]
            ELSE [ pct |-> threshold_pct,
                   basis |-> "of Net Value (Policy - Salvage)" ]
        is_total_loss == MakeDecision(repair_quote, threshold)
    IN  IF loss_type \notin { client, third_party }
        THEN [ raised |-> "ValueError", result |-> None, validation |-> None ]
        ELSE [ raised     |-> "none",
               result     |-> Some(ValuationResult(is_total_loss, threshold,
                                  policy_value, salvage_value, repair_quote,
                                  loss_type, policy_type, vin,
                                  calculation_method)),
               validation |-> Some(validation) ]

(* calculate_total_loss validating whatever skip_validation says.          *)
calculate_total_loss_IgnoringSkip(vin, policy_type, policy_value, salvage_value, repair_quote, loss_type, skip_validation) ==
    LET v == validate_total_loss_input(vin, policy_type, policy_value,
                 salvage_value, repair_quote, loss_type)
    IN  IF v.raised # "none"
        THEN [ raised |-> v.raised, result |-> None, validation |-> None ]
        ELSE LET validation == CHOOSE o \in v.outcome : TRUE
             IN  IF ~ is_valid(validation)
                 THEN [ raised |-> "none", result |-> None,
                        validation |-> Some(validation) ]
                 ELSE ComputeDecision(vin, policy_type, policy_value,
                          salvage_value, repair_quote, loss_type,
                          validation)

calculate_total_loss(vin, policy_type, policy_value, salvage_value, repair_quote, loss_type, skip_validation) ==
    IF skip_validation
    THEN ComputeDecision(vin, policy_type, policy_value, salvage_value,
                         repair_quote, loss_type, ValidationResult)
    ELSE LET v == validate_total_loss_input(vin, policy_type, policy_value,
                      salvage_value, repair_quote, loss_type)
         IN  IF v.raised # "none"
             THEN [ raised |-> v.raised, result |-> None, validation |-> None ]
             ELSE LET validation == CHOOSE o \in v.outcome : TRUE
                  IN  IF ~ is_valid(validation)
                      THEN [ raised |-> "none", result |-> None,
                             validation |-> Some(validation) ]
                      ELSE ComputeDecision(vin, policy_type, policy_value,
                               salvage_value, repair_quote, loss_type,
                               validation)

-----------------------------------------------------------------------------
(* The inputs the operations are called with.                              *)

GoodVin ==
    << "1","H","G","B","H","4","1","J","X","M","N","1","0","9","1","8","6" >>

PaddedLowerVin ==
    << " ","1","h","g","b","h","4","1","j","x","m","n","1","0","9","1","8","6"," " >>

VinWithI ==
    << "1","H","G","B","H","4","1","I","X","M","N","1","0","9","1","8","6" >>

ShortVin == << "1","H","G","B","H","4","1","J","X" >>

VinInputs == { GoodVin, PaddedLowerVin, VinWithI, ShortVin, << >> }

PolicyTypeInputs ==
    { comprehensive, commercial, upper(commercial), luxury,
      << "m","a","r","k","e","t" >> }

LossTypeInputs ==
    { client, third_party, upper(client), upper(third_party),
      << "f","l","e","e","t" >> }

PolicyValueInputs == { -1000, 0, 999, 1000, 20000, 500000, 500001 }

SalvageValueInputs == { -1, 0, 5000, 20000, 25000 }

RepairQuoteInputs == { -1000, 0, 14000, 14001, 40000, 40001 }

Case(vin, policy_type, policy_value, salvage_value, repair_quote, loss_type) ==
    [ vin           |-> vin,
      policy_type   |-> policy_type,
      policy_value  |-> policy_value,
      salvage_value |-> salvage_value,
      repair_quote  |-> repair_quote,
      loss_type     |-> loss_type ]

CaseInputs ==
    { Case(v, pt, pv, sv, rq, lt) :
        v \in VinInputs, pt \in PolicyTypeInputs, pv \in PolicyValueInputs,
        sv \in SalvageValueInputs, rq \in RepairQuoteInputs,
        lt \in LossTypeInputs }

(* The cases a batch file is made of: at the threshold for each loss type, *)
(* over it, a failed validation, a warning, and the two inputs on which a  *)
(* call raises.                                                            *)
BatchCaseInputs ==
    { Case(GoodVin, comprehensive, 20000, 5000, 14000, client),
      Case(GoodVin, comprehensive, 25000, 5000, 14000, third_party),
      Case(GoodVin, commercial, 20000, 5000, 14000, client),
      Case(GoodVin, comprehensive, 20000, 5000, -1000, client),
      Case(GoodVin, comprehensive, 20000, 5000, 40001, third_party),
      Case(GoodVin, comprehensive, 20000, 5000, 14001, upper(client)),
      Case(GoodVin, comprehensive, 0, 0, 100, client) }

MaxBatch == 2

RECURSIVE SeqsUpTo(_, _)
SeqsUpTo(S, n) ==
    IF n = 0 THEN { << >> }
    ELSE LET shorter == SeqsUpTo(S, n - 1)
         IN  shorter \cup { Append(q, x) : q \in { t \in shorter : Len(t) = n - 1 },
                                           x \in S }

BatchInputs == SeqsUpTo(BatchCaseInputs, MaxBatch)

-----------------------------------------------------------------------------
(* The state: which operation the caller is in, the arguments and outcome  *)
(* of the last single call, and the locals of calculate_batch.             *)

VARIABLES
    op,          \* "idle", or the operation whose outcome the caller holds
    call,        \* arguments of that operation: None or Some(case)
    skip,        \* its skip_validation argument
    ret,         \* outcome of calculate_total_loss
    vret,        \* outcome of validate_total_loss_input
    cases,       \* calculate_batch: the argument
    results,     \* calculate_batch: the local list results
    batch_pc,    \* calculate_batch: "idle", "loop", "returned", "raised"
    outcome,     \* a ValidationResult object under add_error / add_warning
    errors_added,\* how many add_error calls that object has received
    vin_arg,     \* validate_vin: None or Some(argument)
    vin_ok,      \* validate_vin: the value returned
    file,        \* the storage file: the list data['decisions']
    now,         \* the clock, in seconds, that datetime.now() reads
    saved,       \* the save_decision calls since the file was initialized
    lookup,      \* get_decision: None or Some([id, found])
    email_args,  \* generate_salvage_email_body: None or Some(arguments)
    email_body,  \* generate_salvage_email_body: the text returned, in words
    explained,   \* generate_explanation: None or Some([result, text])
    summary,     \* run_batch: None or Some(the counts it prints)
    api_pc,      \* _make_request: "idle", "request" (an attempt is due), "done"
    retry_count, \* _make_request: its retry_count argument
    attempts,    \* the HTTP attempts of this call so far
    last,        \* None, or Some(the outcome of the attempt that ended the call)
    retried_ok,  \* every retry so far followed a retryable outcome
    api_ret,     \* what the outermost _make_request returned or raised
    limiter_calls,\* RateLimiter.calls: the recorded call times
    sent,        \* times of the latest HTTP requests sent, within one window
    file_state,  \* whether the storage file parses: "json", "missing", "corrupt"
    storage_call,\* the storage operation just performed, the file before it, its answer
    w_pc,        \* where each caller of save_decision is: "idle", "read", "appended", "done"
    w_arg,       \* the decision_data each caller saves
    w_data,      \* the decisions each caller holds after its read
    w_id         \* the identifier each caller generated

engineVars == << op, call, skip, ret, vret, cases, results, batch_pc >>

outcomeVars == << outcome, errors_added >>

vinVars == << vin_arg, vin_ok >>

storageVars == << file, now, saved, lookup >>

emailVars == << email_args, email_body >>

explainVars == << explained >>

summaryVars == << summary >>

apiVars == << api_pc, retry_count, attempts, last, retried_ok, api_ret, limiter_calls, sent >>

diskVars == << file_state, storage_call >>

writerVars == << w_pc, w_arg, w_data, w_id >>

vars == << engineVars, outcomeVars, vinVars, storageVars, emailVars, explainVars, summaryVars, apiVars, diskVars, writerVars >>

NoRet == [ raised |-> "none", result |-> None, validation |-> None ]

NoVret == [ raised |-> "none", outcome |-> None ]

(* The callers that share one storage file.                               *)
Writers == { 1, 2 }

(* No storage operation has been performed.                               *)
NoCall == [ op |-> "none" ]

Init ==
    /\ op = "idle"
    /\ call = None
    /\ skip = FALSE
    /\ ret = NoRet
    /\ vret = NoVret
    /\ cases = << >>
    /\ results = << >>
    /\ batch_pc = "idle"
    /\ outcome = ValidationResult
    /\ errors_added = 0
    /\ vin_arg = None
    /\ vin_ok = FALSE
    /\ file = << >>
    /\ now = 0
    /\ saved = { }
    /\ lookup = None
    /\ email_args = None
    /\ email_body = << >>
    /\ explained = None
    /\ summary = None
    /\ api_pc = "idle"
    /\ retry_count = 0
    /\ attempts = 0
    /\ last = None
    /\ retried_ok = TRUE
    /\ api_ret = [ kind |-> "none" ]
    /\ limiter_calls = << >>
    /\ sent = << >>
    /\ file_state = "json"
    /\ storage_call = NoCall
    /\ w_pc = [ w \in Writers |-> "idle" ]
    /\ w_arg = [ w \in Writers |-> None ]
    /\ w_data = [ w \in Writers |-> << >> ]
    /\ w_id = [ w \in Writers |-> None ]

Engine(c, skip_validation) ==
    calculate_total_loss(c.vin, c.policy_type, c.policy_value, c.salvage_value,
                         c.repair_quote, c.loss_type, skip_validation)

Validate(c) ==
    validate_total_loss_input(c.vin, c.policy_type, c.policy_value,
                              c.salvage_value, c.repair_quote, c.loss_type)

(* engine.calculate_total_loss on case c with skip_validation = s         *)
CalculateTotalLoss ==
    /\ op = "idle"
    /\ \E c \in CaseInputs, s \in BOOLEAN :
          /\ op' = "calculate_total_loss"
          /\ call' = Some(c)
          /\ skip' = s
          /\ ret' = Engine(c, s)
    /\ UNCHANGED << vret, cases, results, batch_pc >>
    /\ UNCHANGED << outcomeVars, vinVars, storageVars, emailVars, explainVars, summaryVars, apiVars, diskVars, writerVars >>

(* validator.validate_total_loss_input on case c                          *)
ValidateTotalLossInput ==
    /\ op = "idle"
    /\ \E c \in CaseInputs :
          /\ op' = "validate_total_loss_input"
          /\ call' = Some(c)
          /\ vret' = Validate(c)
    /\ UNCHANGED << skip, ret, cases, results, batch_pc >>
    /\ UNCHANGED << outcomeVars, vinVars, storageVars, emailVars, explainVars, summaryVars, apiVars, diskVars, writerVars >>

(* engine.calculate_batch(cs): entry, results = []                         *)
CalculateBatch ==
    /\ op = "idle"
    /\ \E cs \in BatchInputs : cases' = cs
    /\ op' = "calculate_batch"
    /\ results' = << >>
    /\ batch_pc' = "loop"
    /\ UNCHANGED << call, skip, ret, vret >>
    /\ UNCHANGED << outcomeVars, vinVars, storageVars, emailVars, explainVars, summaryVars, apiVars, diskVars, writerVars >>

BatchEntry(case, r) ==
    [ case       |-> case,
      result     |-> { to_dict(x) : x \in r.result },
      validation |-> get_summary(CHOOSE v \in r.validation : TRUE) ]

(* One iteration of the for loop, on a case that carries the six          *)
(* arguments and leaves skip_validation at its default; an exception of    *)
(* calculate_total_loss leaves calculate_batch, which has no handler.      *)
BatchIteration ==
    /\ batch_pc = "loop"
    /\ Len(results) < Len(cases)
    /\ LET case == cases[Len(results) + 1]
           r    == Engine(case, FALSE)
       IN  IF r.raised # "none"
           THEN /\ batch_pc' = "raised"
                /\ UNCHANGED results
           ELSE /\ results' = Append(results, BatchEntry(case, r))
                /\ UNCHANGED batch_pc
    /\ UNCHANGED << op, call, skip, ret, vret, cases >>
    /\ UNCHANGED << outcomeVars, vinVars, storageVars, emailVars, explainVars, summaryVars, apiVars, diskVars, writerVars >>

(* return results                                                          *)
BatchReturn ==
    /\ batch_pc = "loop"
    /\ Len(results) = Len(cases)
    /\ batch_pc' = "returned"
    /\ UNCHANGED << op, call, skip, ret, vret, cases, results >>
    /\ UNCHANGED << outcomeVars, vinVars, storageVars, emailVars, explainVars, summaryVars, apiVars, diskVars, writerVars >>

(* The caller is done with the outcome and is free to call again.          *)
Discard ==
    /\ op # "idle"
    /\ batch_pc # "loop"
    /\ op' = "idle"
    /\ call' = None
    /\ skip' = FALSE
    /\ ret' = NoRet
    /\ vret' = NoVret
    /\ cases' = << >>
    /\ results' = << >>
    /\ batch_pc' = "idle"
    /\ UNCHANGED << outcomeVars, vinVars, storageVars, emailVars, explainVars, summaryVars, apiVars, diskVars, writerVars >>

Next ==
    \/ CalculateTotalLoss
    \/ ValidateTotalLossInput
    \/ CalculateBatch
    \/ BatchIteration
    \/ BatchReturn
    \/ Discard

Spec == Init /\ [][Next]_vars

-----------------------------------------------------------------------------
(* Properties.                                                             *)

TheCall == CHOOSE c \in call : TRUE

Validated == op = "calculate_total_loss" /\ ~ skip

ConfiguredFraction(policy_type) ==
    IF lower(policy_type) \in DOMAIN THRESHOLDS
    THEN THRESHOLDS[lower(policy_type)]
    ELSE THRESHOLDS[client]

(* C2: for every client-loss case that passes validation the threshold is  *)
(* policy_value times the fraction configured for its policy               *)
(* classification, whatever the salvage value.                             *)
C2_ClientThreshold ==
    Validated =>
        \A r \in ret.result :
            r.loss_type = client =>
                r.threshold = r.policy_value * ConfiguredFraction(r.policy_type)

(* C3: for every third-party case that passes validation the threshold is  *)
(* (policy_value - salvage_value) times the fraction configured for its    *)
(* policy classification.                                                  *)
C3_ThirdPartyThreshold ==
    Validated =>
        \A r \in ret.result :
            r.loss_type = third_party =>
                r.threshold = (r.policy_value - r.salvage_value)
                                  * ConfiguredFraction(r.policy_type)

(* C4: with validation enabled, whenever the validator produces an outcome *)
(* the call returns it, with no result exactly when the outcome has an     *)
(* error and with a DecisionResult exactly when it has none.               *)
C4_NoDecisionOnFailure ==
    Validated =>
        \A v \in Validate(TheCall).outcome :
            /\ ret.raised = "none"
            /\ ret.validation = Some(v)
            /\ (ret.result = None) = (Len(v.errors) > 0)

(* C5: no input that passes validate_total_loss_input reaches the engine's *)
(* Invalid loss type branch.                                               *)
C5_AcceptedLossTypesHandled ==
    Validated =>
        (\A v \in Validate(TheCall).outcome :
            is_valid(v) => ret.raised # "ValueError")

(* C6: validate_total_loss_input returns a ValidationOutcome and never     *)
(* raises, for every string and numeric input.                             *)
C6_ValidationNeverRaises ==
    op = "validate_total_loss_input" =>
        vret.raised = "none" /\ vret.outcome # None

(* The fields whose rule the input violates.                               *)
ViolatedFields(c) ==
    { f \in { "vin", "policy_type", "loss_type", "policy_value",
              "salvage_value", "repair_quote" } :
        \/ f = "vin" /\ ~ validate_vin(c.vin)
        \/ f = "policy_type" /\ ~ validate_policy_type(c.policy_type)
        \/ f = "loss_type" /\ ~ validate_loss_type(c.loss_type)
        \/ f = "policy_value"
             /\ \/ c.policy_value < VALIDATION_RULES.min_policy_value
                \/ c.policy_value > VALIDATION_RULES.max_policy_value
        \/ f = "salvage_value"
             /\ \/ c.salvage_value < VALIDATION_RULES.min_salvage_value
                \/ c.salvage_value > c.policy_value
        \/ f = "repair_quote"
             /\ c.repair_quote < VALIDATION_RULES.min_repair_quote }

ErrorFields(v) == { v.errors[i].field : i \in 1..Len(v.errors) }

(* C7: one call of validate_total_loss_input reports an error on the field *)
(* of every violated rule, whichever other rules are violated too.         *)
C7_AllRulesReported ==
    op = "validate_total_loss_input" =>
        \A f \in ViolatedFields(TheCall) :
            \E v \in vret.outcome : f \in ErrorFields(v)

(* C8: when calculate_batch ends, its output has one entry per case in     *)
(* input order, and a case that fails validation has result None and the   *)
(* failed-validation summary; no case keeps another from its entry.        *)
C8_BatchIsolation ==
    batch_pc \in { "returned", "raised" } =>
        /\ batch_pc = "returned"
        /\ Len(results) = Len(cases)
        /\ \A i \in 1..Len(cases) :
              /\ results[i].case = cases[i]
              /\ (\E v \in Validate(cases[i]).outcome : ~ is_valid(v)) =>
                     /\ results[i].result = None
                     /\ ~ results[i].validation.passed

(* The decision fields of an outcome of calculate_total_loss.              *)
DecisionFields(r) ==
    [ decision   |-> { d.decision : d \in { to_dict(x) : x \in r.result } },
      threshold  |-> { x.threshold : x \in r.result },
      margin     |-> { x.decision_margin : x \in r.result },
      validation |-> { get_summary(v) : v \in r.validation } ]

EntryFields(e) ==
    [ decision   |-> { d.decision : d \in e.result },
      threshold  |-> { d.threshold : d \in e.result },
      margin     |-> { d.decision_margin : d \in e.result },
      validation |-> { e.validation } ]

(* C9: when calculate_batch ends, every case that has an outcome when      *)
(* evaluated alone has an entry at its index with the same decision        *)
(* fields, whatever the other cases of the batch are.                      *)
C9_BatchIdempotence ==
    batch_pc \in { "returned", "raised" } =>
        \A i \in 1..Len(cases) :
            Engine(cases[i], FALSE).raised = "none" =>
                /\ batch_pc = "returned"
                /\ i <= Len(results)
                /\ EntryFields(results[i]) =
                       DecisionFields(Engine(cases[i], FALSE))

(* Every rule but the repair-quote ratio is met.                           *)
OtherwiseValid(c) ==
    /\ ViolatedFields(c) = { }
    /\ c.repair_quote >
           c.policy_value * VALIDATION_RULES.max_repair_quote_ratio

(* C10: a repair quote over policy_value times max_repair_quote_ratio on   *)
(* otherwise valid inputs gives a valid outcome with a warning on          *)
(* repair_quote, returned together with a DecisionResult that is a total   *)
(* loss.                                                                   *)
C10_HighQuoteIsWarning ==
    (Validated /\ OtherwiseValid(TheCall)) =>
        /\ ret.raised = "none"
        /\ \E v \in ret.validation :
              /\ is_valid(v)
              /\ \E i \in 1..Len(v.warnings) : v.warnings[i].field = "repair_quote"
              /\ Validate(TheCall).outcome = Some(v)
        /\ \E r \in ret.result : r.is_total_loss

(* The same with the loss type spelled as the engine compares it.          *)
HighQuoteIsWarningExactLossType ==
    (Validated /\ OtherwiseValid(TheCall) /\ TheCall.loss_type \in LOSS_TYPES) =>
        /\ ret.raised = "none"
        /\ \E v \in ret.validation :
              /\ is_valid(v)
              /\ \E i \in 1..Len(v.warnings) : v.warnings[i].field = "repair_quote"
        /\ \E r \in ret.result : r.is_total_loss

-----------------------------------------------------------------------------
(* The call is a validated one and returned this ValidationOutcome.        *)
Returned(v) == ret.raised = "none" /\ ret.validation = Some(v)

(* A client-loss input that meets every rule and whose repair quote is     *)
(* exactly max_repair_quote_ratio times the policy value.                  *)
QuoteAtRatio(c) ==
    /\ ViolatedFields(c) = { }
    /\ c.loss_type = client
    /\ c.repair_quote =
           c.policy_value * VALIDATION_RULES.max_repair_quote_ratio

(* C11: a repair quote of exactly max_repair_quote_ratio times the policy  *)
(* value (policy 20000, repair 40000), on otherwise valid client-loss      *)
(* inputs, passes validation with at least one warning and yields a total  *)
(* loss.                                                                   *)
C11_QuoteAtRatioWarned ==
    (Validated /\ QuoteAtRatio(TheCall)) =>
        /\ \E v \in ret.validation :
              Returned(v) /\ is_valid(v) /\ Len(v.warnings) >= 1
        /\ \E r \in ret.result : r.is_total_loss

(* C12: a salvage value over the policy value gives an invalid outcome     *)
(* with an error on salvage_value and no DecisionResult; a salvage value   *)
(* equal to the policy value gets no error on salvage_value.               *)
C12_SalvageOverPolicyRejected ==
    Validated =>
        /\ TheCall.salvage_value > TheCall.policy_value =>
              /\ ret.result = None
              /\ \E v \in ret.validation :
                    Returned(v) /\ "salvage_value" \in ErrorFields(v)
        /\ (TheCall.salvage_value = TheCall.policy_value
                /\ TheCall.salvage_value >= 0) =>
              \A v \in ret.validation : "salvage_value" \notin ErrorFields(v)

(* C13: every DecisionResult produced with validation enabled, by a single *)
(* call or in a batch, has a net value policy_value - salvage_value and a  *)
(* threshold that are not negative.                                        *)
C13_NetValueNotNegative ==
    /\ Validated =>
          \A r \in ret.result :
              r.policy_value - r.salvage_value >= 0 /\ r.threshold >= 0
    /\ \A i \in 1..Len(results) : \A d \in results[i].result :
          d.policy_value - d.salvage_value >= 0 /\ d.threshold >= 0

(* A validated third-party result whose salvage is positive and below the  *)
(* policy value.                                                           *)
C13_Witness ==
    /\ Validated
    /\ \E r \in ret.result :
          /\ r.loss_type = third_party
          /\ r.salvage_value > 0
          /\ r.policy_value - r.salvage_value > 0
          /\ r.threshold > 0

C16_ThresholdPercentage ==
    /\ (op = "calculate_total_loss" /\ skip) => ret.raised # "ZeroDivisionError"
    /\ \A r \in ret.result :
          /\ r.threshold_percentage[2] # 0
          /\ r.threshold > 0 =>
                r.threshold_percentage = << r.repair_quote * 100 * 100, r.threshold >>
          /\ r.threshold <= 0 => r.threshold_percentage = << 0, 1 >>

(* A result computed with validation skipped on a negative threshold.      *)
C16_Witness ==
    /\ op = "calculate_total_loss"
    /\ skip
    /\ \E r \in ret.result :
          r.threshold < 0 /\ r.threshold_percentage = << 0, 1 >>

(* C18: a policy value is accepted exactly on the closed range             *)
(* [min_policy_value, max_policy_value]: a value outside it gives an error *)
(* on field policy_value and no result, and the two bounds give no error   *)
(* on that field.                                                          *)
C18_PolicyValueRange ==
    Validated =>
        /\ (\/ TheCall.policy_value < VALIDATION_RULES.min_policy_value
            \/ TheCall.policy_value > VALIDATION_RULES.max_policy_value) =>
              /\ ret.result = None
              /\ \E v \in ret.validation :
                    Returned(v) /\ "policy_value" \in ErrorFields(v)
        /\ TheCall.policy_value \in { VALIDATION_RULES.min_policy_value,
                                      VALIDATION_RULES.max_policy_value } =>
              \E v \in Validate(TheCall).outcome :
                  "policy_value" \notin ErrorFields(v)

-----------------------------------------------------------------------------
(* A ValidationResult object under any sequence of add_error and           *)
(* add_warning calls.                                                      *)

MaxEntries == 2

FieldInputs == { "vin", "repair_quote" }

MessageInputs == { "Invalid VIN format", "Please verify." }

NewValidationResult ==
    /\ outcome' = ValidationResult
    /\ errors_added' = 0
    /\ UNCHANGED << engineVars, vinVars, storageVars, emailVars, explainVars, summaryVars, apiVars, diskVars, writerVars >>

AddError ==
    /\ Len(outcome.errors) < MaxEntries
    /\ \E field \in FieldInputs, message \in MessageInputs :
          outcome' = add_error(outcome, field, message)
    /\ errors_added' = errors_added + 1
    /\ UNCHANGED << engineVars, vinVars, storageVars, emailVars, explainVars, summaryVars, apiVars, diskVars, writerVars >>

AddWarning ==
    /\ Len(outcome.warnings) < MaxEntries
    /\ \E field \in FieldInputs, message \in MessageInputs :
          outcome' = add_warning(outcome, field, message)
    /\ UNCHANGED << errors_added, engineVars, vinVars, storageVars, emailVars, explainVars, summaryVars, apiVars, diskVars, writerVars >>

NextOutcome ==
    \/ NewValidationResult
    \/ AddError
    \/ AddWarning

SpecOutcome == Init /\ [][NextOutcome]_vars

(* C17: after any sequence of add_error and add_warning calls the object   *)
(* is valid if and only if its error sequence is empty, which is the case  *)
(* if and only if add_error was never called; add_warning calls leave      *)
(* validity as it was.                                                     *)
C17_ValidIffNoErrors ==
    /\ is_valid(outcome) = (outcome.errors = << >>)
    /\ Len(outcome.errors) = errors_added
    /\ is_valid(outcome) = (errors_added = 0)

(* Warnings were added and the object is still valid.                      *)
C17_Witness ==
    /\ Len(outcome.warnings) = MaxEntries
    /\ errors_added = 0
    /\ is_valid(outcome)

-----------------------------------------------------------------------------
(* validate_vin applied to strings: a well-formed VIN with one position    *)
(* replaced, and VINs of several lengths and cases inside whitespace.      *)

MaxPad == 2

SubstitutePositions == { 1, 8, VinLength }

SubstituteChars ==
    { UpperLetters[i] : i \in 1..26 } \cup { "i", "o", "q", "a", "z" }
        \cup { "0", "9", " ", "\t", "-", "_" }

Substituted == { [ GoodVin EXCEPT ![p] = ch ] : p \in SubstitutePositions, ch \in SubstituteChars }

RECURSIVE PadsUpTo(_)
PadsUpTo(n) ==
    IF n = 0 THEN { << >> }
    ELSE LET shorter == PadsUpTo(n - 1)
         IN  shorter \cup { Append(w, ch) : w \in shorter, ch \in Whitespace }

VinCores ==
    { GoodVin, lower(GoodVin), VinWithI, ShortVin, << >>,
      SubSeq(GoodVin, 1, VinLength - 1), Append(GoodVin, "7") }

Padded == { l \o core \o r : l \in PadsUpTo(MaxPad), r \in PadsUpTo(MaxPad), core \in VinCores }

VinArgInputs == Substituted \cup Padded \cup { [ i \in 1..VinLength |-> " " ] }

ValidateVin ==
    /\ vin_arg = None
    /\ \E vin \in VinArgInputs :
          /\ vin_arg' = Some(vin)
          /\ vin_ok' = validate_vin(vin)
    /\ UNCHANGED << engineVars, outcomeVars, storageVars, emailVars, explainVars, summaryVars, apiVars, diskVars, writerVars >>

(* The caller is done with the answer and is free to call again.           *)
DiscardVin ==
    /\ vin_arg # None
    /\ vin_arg' = None
    /\ vin_ok' = FALSE
    /\ UNCHANGED << engineVars, outcomeVars, storageVars, emailVars, explainVars, summaryVars, apiVars, diskVars, writerVars >>

NextVin ==
    \/ ValidateVin
    \/ DiscardVin

SpecVin == Init /\ [][NextVin]_vars

(* The 33 symbols of a VIN, written out.                                   *)
VinSymbols ==
    { "0","1","2","3","4","5","6","7","8","9",
      "A","B","C","D","E","F","G","H","J","K","L","M","N",
      "P","R","S","T","U","V","W","X","Y","Z" }

-----------------------------------------------------------------------------
(* data_storage.py: the decisions of the storage file under the methods of *)
(* DecisionStorage.  The file holds JSON: an object is a set of            *)
(* << key, value >> members, the decisions are a list of objects;          *)
(* file_state tells whether the text on disk parses.  The clock is         *)
(* datetime.now() in whole seconds, as strftime with %Y%m%d%H%M%S prints   *)
(* it; it may stand still and may go back.                                 *)

MaxDecisions == 2

MaxClock == 1

json_dump(decisions) ==
    [ i \in 1..Len(decisions) |->
        { << k, decisions[i][k] >> : k \in DOMAIN decisions[i] } ]

json_load(text) ==
    [ i \in 1..Len(text) |->
        [ k \in { m[1] : m \in text[i] } |-> (CHOOSE m \in text[i] : m[1] = k)[2] ] ]

_initialize_storage == json_dump(<< >>)

_read_data(f) == json_load(f)

(* The file with every read re-initialising it.                            *)
_read_data_file_AlwaysInitialize(f, st) == _initialize_storage

(* The file as _read_data leaves it: a file that is missing or does not    *)
(* parse is overwritten with an empty store before it is read again.       *)
_read_data_file(f, st) == IF st = "json" THEN f ELSE _initialize_storage

_write_data(decisions) == json_dump(decisions)

(* The identifier with the timestamp alone.                                *)
decision_id_TimestampOnly(clock, count) == << "DEC", clock >>

(* f"DEC-{now:%Y%m%d%H%M%S}-{len(decisions) + 1:04d}"                      *)
decision_id(clock, count) == << "DEC", clock, count + 1 >>

(* { "id": ..., "stored_at": ..., **decision_data }: a key of the data     *)
(* replaces the key written before it.                                     *)
decision_record(id, clock, decision_data) ==
    decision_data @@ [ id |-> id, stored_at |-> clock ]

save_decision(f, clock, decision_data) ==
    LET decisions == _read_data(f)
        id        == decision_id(clock, Len(decisions))
        record    == decision_record(id, clock, decision_data)
    IN  [ file |-> _write_data(Append(decisions, record)), id |-> id ]

get_decision(f, id) ==
    LET decisions == _read_data(f)
        matches   == { i \in 1..Len(decisions) : decisions[i].id = id }
    IN  IF matches = { } THEN None
        ELSE Some(decisions[CHOOSE i \in matches : \A j \in matches : i <= j])

get_decisions_by_vin(f, vin) ==
    SelectSeq(_read_data(f), LAMBDA d : d.vin = vin)

(* sorted(decisions, key=stored_at, reverse=True): a stable sort, so       *)
(* decisions stored in the same second keep their order.                   *)
InsertByStoredAt(sorted, d) ==
    LET ahead == { i \in 1..Len(sorted) : sorted[i].stored_at >= d.stored_at }
        n     == Cardinality(ahead)
    IN  SubSeq(sorted, 1, n) \o << d >> \o SubSeq(sorted, n + 1, Len(sorted))

RECURSIVE sorted_decisions(_)
sorted_decisions(decisions) ==
    IF decisions = << >> THEN << >>
    ELSE InsertByStoredAt(sorted_decisions(SubSeq(decisions, 1, Len(decisions) - 1)),
                          decisions[Len(decisions)])

get_recent_decisions(f, limit) ==
    LET sorted == sorted_decisions(_read_data(f))
    IN  SubSeq(sorted, 1, IF limit < Len(sorted) THEN limit ELSE Len(sorted))

RECURSIVE SumOf(_)
SumOf(numbers) ==
    IF numbers = << >> THEN 0 ELSE Head(numbers) + SumOf(Tail(numbers))

(* An average is the pair << sum, count >> of the division the code does.  *)
get_statistics(f) ==
    LET decisions     == _read_data(f)
        n             == Len(decisions)
        policy_values == [ i \in 1..n |-> decisions[i].policy_value ]
        repair_quotes == [ i \in 1..n |-> decisions[i].repair_quote ]
        truthy(xs)    == SelectSeq(xs, LAMBDA x : x # 0)
        average(xs)   == IF truthy(xs) = << >> THEN << 0, 1 >>
                         ELSE << SumOf(truthy(xs)), Len(truthy(xs)) >>
    IN  IF n = 0
        THEN [ total_decisions  |-> 0,
               total_losses     |-> 0,
               repairable       |-> 0,
               avg_policy_value |-> << 0, 1 >>,
               avg_repair_quote |-> << 0, 1 >>,
               loss_types       |-> << >> ]
        ELSE [ total_decisions       |-> n,
               total_losses          |-> Len(SelectSeq(decisions, LAMBDA d : d.decision = "TOTAL LOSS")),
               repairable            |-> Len(SelectSeq(decisions, LAMBDA d : d.decision = "REPAIRABLE")),
               total_loss_percentage |->
                   << Len(SelectSeq(decisions, LAMBDA d : d.decision = "TOTAL LOSS")) * 100, n >>,
               avg_policy_value      |-> average(policy_values),
               avg_repair_quote      |-> average(repair_quotes),
               loss_types            |->
                   [ lt \in { decisions[i].loss_type : i \in 1..n } |->
                        Len(SelectSeq(decisions, LAMBDA d : d.loss_type = lt)) ],
               first_decision        |-> decisions[1].stored_at,
               last_decision         |-> decisions[n].stored_at ]

(* A filter is applied when its argument is given: "is not None" for the   *)
(* two values, truthiness for the rest.                                    *)
search_decisions(f, q) ==
    SelectSeq(_read_data(f), LAMBDA d :
        /\ \A v \in q.min_policy_value : d.policy_value >= v
        /\ \A v \in q.max_policy_value : d.policy_value <= v
        /\ \A v \in q.loss_type : v # << >> => d.loss_type = v
        /\ \A v \in q.decision : v # "" => d.decision = v
        /\ \A v \in q.start_date : d.stored_at >= v
        /\ \A v \in q.end_date : d.stored_at <= v)

(* export_to_csv writes nothing when there are no decisions; otherwise it  *)
(* opens output_path for writing and writes a header of the first          *)
(* decision's keys and one row per decision.  DictWriter refuses a row     *)
(* with a key outside the header.                                          *)
export_to_csv(f) ==
    LET decisions  == _read_data(f)
        fieldnames == DOMAIN decisions[1]
        fits       == \A i \in 1..Len(decisions) : DOMAIN decisions[i] \subseteq fieldnames
    IN  IF decisions = << >> THEN [ written |-> FALSE, raised |-> "none", rows |-> 0 ]
        ELSE [ written |-> TRUE,
               raised  |-> IF fits THEN "none" ELSE "ValueError",
               rows    |-> Len(decisions) ]

(* Clearing whether or not the caller confirmed.                           *)
clear_all_decisions_Unconfirmed(f, st, confirm) ==
    [ file |-> _initialize_storage, state |-> "json", raised |-> "none" ]

clear_all_decisions(f, st, confirm) ==
    IF ~ confirm THEN [ file |-> f, state |-> st, raised |-> "ValueError" ]
    ELSE [ file |-> _initialize_storage, state |-> "json", raised |-> "none" ]

(* What callers save: result.to_dict() of a computed decision.             *)
SavedCaseInputs ==
    { Case(GoodVin, comprehensive, 20000, 5000, 14000, client),
      Case(GoodVin, comprehensive, 20000, 5000, 14001, client),
      Case(upper(strip(PaddedLowerVin)), commercial, 25000, 5000, 40001, third_party) }

DecisionInputs ==
    { to_dict(r) : r \in UNION { Engine(c, FALSE).result : c \in SavedCaseInputs } }

(* An identifier no save has returned.                                     *)
UnknownId == decision_id(MaxClock + 1, 0)

(* The file on disk before an operation, and the file as the operation's   *)
(* _read_data leaves it.                                                   *)
Disk == [ file |-> file, state |-> file_state ]

AfterRead == _read_data_file(file, file_state)

StorageCall(name, arg, raised, answer) ==
    [ op |-> name, before |-> Disk, arg |-> arg, raised |-> raised, ret |-> answer ]

SaveDecision ==
    /\ Len(AfterRead) < MaxDecisions
    /\ \E decision_data \in DecisionInputs :
          LET done == save_decision(AfterRead, now, decision_data)
          IN  /\ file' = done.file
              /\ file_state' = "json"
              /\ saved' = (IF file_state = "json" THEN saved ELSE { })
                             \cup { [ id |-> done.id, data |-> decision_data ] }
              /\ storage_call' = StorageCall("save_decision", decision_data, "none", done.id)
    /\ UNCHANGED << now, lookup, engineVars, outcomeVars, vinVars, emailVars, explainVars, summaryVars, apiVars, writerVars >>

GetDecision ==
    /\ \E id \in { s.id : s \in saved } \cup { UnknownId } :
          /\ lookup' = Some([ id |-> id, found |-> get_decision(AfterRead, id) ])
          /\ storage_call' = StorageCall("get_decision", id, "none", get_decision(AfterRead, id))
    /\ file' = AfterRead
    /\ file_state' = "json"
    /\ UNCHANGED << now, saved, engineVars, outcomeVars, vinVars, emailVars, explainVars, summaryVars, apiVars, writerVars >>

(* clear_all_decisions(confirm): without confirm it raises and leaves the  *)
(* file as it is; with it, the identifiers and the answer the caller holds *)
(* belong to a file that is gone.                                          *)
ClearAllDecisions ==
    /\ \E confirm \in BOOLEAN :
          LET done == clear_all_decisions(file, file_state, confirm)
          IN  /\ file' = done.file
              /\ file_state' = done.state
              /\ storage_call' = StorageCall("clear_all_decisions", confirm, done.raised, None)
              /\ IF done.raised = "none"
                 THEN saved' = { } /\ lookup' = None
                 ELSE UNCHANGED << saved, lookup >>
    /\ UNCHANGED << now, engineVars, outcomeVars, vinVars, emailVars, explainVars, summaryVars, apiVars, writerVars >>

Tick ==
    /\ \E clock \in 0..MaxClock : now' = clock
    /\ UNCHANGED << file, saved, lookup, engineVars, outcomeVars, vinVars, emailVars, explainVars, summaryVars, apiVars, diskVars, writerVars >>

NextStorage ==
    \/ SaveDecision
    \/ GetDecision
    \/ ClearAllDecisions
    \/ Tick

SpecStorage == Init /\ [][NextStorage]_vars

KeepsData(record, decision_data) ==
    /\ DOMAIN decision_data \subseteq DOMAIN record
    /\ \A k \in DOMAIN decision_data : record[k] = decision_data[k]

(* C20: after any sequence of save_decision calls, get_decision with the   *)
(* identifier a save returned gives the record that save wrote, with every *)
(* field of the saved decision data unchanged.                             *)
C20_SaveThenGet ==
    /\ \A s \in saved :
          LET found == get_decision(file, s.id)
          IN  /\ found # None
              /\ \A record \in found : record.id = s.id /\ KeepsData(record, s.data)
    /\ \A l \in lookup : \A s \in saved :
          l.id = s.id => \E record \in l.found : KeepsData(record, s.data)

(* Two saves within one second of different data, and a lookup of the      *)
(* second that found its vin and decision.                                 *)
C20_Witness ==
    \E s1 \in saved, s2 \in saved :
        /\ s1.id # s2.id
        /\ s1.id[2] = s2.id[2]
        /\ s1.data # s2.data
        /\ s1.id[3] < s2.id[3]
        /\ \E l \in lookup : \E record \in l.found :
              /\ l.id = s2.id
              /\ record.vin = s2.data.vin
              /\ record.decision = s2.data.decision

-----------------------------------------------------------------------------
(* salvage_email.py: generate_salvage_email_body.  A text is a sequence of *)
(* words; the template's own words are written out around the values it   *)
(* interpolates.  loss_type is only compared and looked up here, never     *)
(* read character by character, so it is an atomic string.                 *)

StandardSalvageClient == << "Standard", "Salvage", "(Client)" >>

FirmBuyTender == << "Firm", "Buy", "Tender" >>

FirmBuyTenderThirdParty == FirmBuyTender \o << "(Third", "Party)" >>

(* phrase in text                                                          *)
Contains(text, phrase) ==
    \E i \in 1..(Len(text) - Len(phrase) + 1) :
        SubSeq(text, i, i + Len(phrase) - 1) = phrase

DigitWords == << "0","1","2","3","4","5","6","7","8","9" >>

RECURSIVE DecimalWords(_)
DecimalWords(n) ==
    IF n < 10 THEN << DigitWords[n + 1] >>
    ELSE Append(DecimalWords(n \div 10), DigitWords[(n % 10) + 1])

(* f"${policy_value:,.2f}" of a whole number of dollars                    *)
FormatMoney(value) == << "$" >> \o DecimalWords(value) \o << ".", "0", "0" >>

(* vehicle_info.get(key, default)                                          *)
Get(vehicle_info, key, default) ==
    IF key \in DOMAIN vehicle_info THEN vehicle_info[key] ELSE default

(* config.LOSS_TYPES.get(loss_type, loss_type)                             *)
LossTypeName(loss_type) ==
    IF loss_type = "client" THEN << "Client", "Vehicle", "(Own", "Damage)" >>
    ELSE IF loss_type = "third_party" THEN << "Third", "Party", "Vehicle" >>
    ELSE << loss_type >>

(* The label chosen whatever the loss type.                                *)
tender_type_AlwaysStandard(loss_type) == StandardSalvageClient

tender_type(loss_type) ==
    IF loss_type = "third_party" THEN FirmBuyTenderThirdParty
    ELSE StandardSalvageClient

generate_salvage_email_body(vehicle_info, policy_value, loss_type, additional_info, clock) ==
    << "Crashify360", "Salvage", "Request", "Dear", "Salvage", "Partner,",
       "declared", "a", "total", "loss:", "Tender", "Type:" >>
    \o tender_type(loss_type)
    \o << "VIN" >> \o Get(vehicle_info, "vin", << "N/A" >>)
    \o << "Year" >> \o Get(vehicle_info, "year", << "N/A" >>)
    \o << "Make" >> \o Get(vehicle_info, "make", << "N/A" >>)
    \o << "Model" >> \o Get(vehicle_info, "model", << "N/A" >>)
    \o << "Variant" >> \o Get(vehicle_info, "variant", << "N/A" >>)
    \o << "Odometer" >> \o Get(vehicle_info, "odometer", << "N/A" >>) \o << "km" >>
    \o << "Policy", "Value" >> \o FormatMoney(policy_value)
    \o << "Location" >> \o Get(vehicle_info, "location", << "TBA" >>)
    \o << "Request", "Details", "Loss", "Type:" >> \o LossTypeName(loss_type)
    \o << "Date", "Requested:" >> \o DecimalWords(clock)
    \o (IF additional_info # << >>
        THEN << "Additional", "Information:" >> \o additional_info
        ELSE << >>)
    \o << "Required", "Information", "Salvage", "value", "offer",
          "Response", "Required", "48", "hours", "Crashify360", "Team",
          "automated", "message", "Total", "Loss", "Evaluation", "System" >>

EmailLossTypeInputs == { "client", "third_party", "THIRD_PARTY", "fleet" }

AdditionalInfoInputs ==
    { << >>,
      << "Please", "collect", "on", "Monday" >>,
      << "Buy", "Firm" >>,
      << "previously", "listed", "as" >> \o FirmBuyTenderThirdParty,
      << "not", "a" >> \o FirmBuyTender,
      << "treat", "as" >> \o StandardSalvageClient }

VehicleInfoInputs ==
    { [ vin |-> << "1HGBH41JXMN109186" >>, year |-> << "2020" >>,
        make |-> << "Toyota" >>, model |-> << "Camry" >> ],
      [ vin |-> << "2HGBH41JXMN109187" >>, year |-> << "2019" >>,
        make |-> << "Honda" >>, model |-> << "Civic" >>,
        location |-> << "Firm", "Buy", "Tender", "Yard" >> ],
      [ vin |-> << "1HGBH41JXMN109186" >> ] }

EmailPolicyValueInputs == { 20000, 25000 }

GenerateSalvageEmailBody ==
    /\ email_args = None
    /\ \E vehicle_info \in VehicleInfoInputs, policy_value \in EmailPolicyValueInputs,
          loss_type \in EmailLossTypeInputs, additional_info \in AdditionalInfoInputs :
          /\ email_args' = Some([ vehicle_info |-> vehicle_info,
                                  policy_value |-> policy_value,
                                  loss_type |-> loss_type,
                                  additional_info |-> additional_info ])
          /\ email_body' = generate_salvage_email_body(vehicle_info, policy_value,
                                loss_type, additional_info, now)
    /\ UNCHANGED << engineVars, outcomeVars, vinVars, storageVars, explainVars, summaryVars, apiVars, diskVars, writerVars >>

(* The caller is done with the body and is free to call again.             *)
DiscardEmail ==
    /\ email_args # None
    /\ email_args' = None
    /\ email_body' = << >>
    /\ UNCHANGED << engineVars, outcomeVars, vinVars, storageVars, explainVars, summaryVars, apiVars, diskVars, writerVars >>

NextEmail ==
    \/ GenerateSalvageEmailBody
    \/ DiscardEmail

SpecEmail == Init /\ [][NextEmail]_vars

LabelByLossType(a) ==
    /\ a.loss_type = "third_party" =>
          /\ Contains(email_body, FirmBuyTenderThirdParty)
          /\ ~ Contains(email_body, StandardSalvageClient)
    /\ a.loss_type = "client" =>
          /\ Contains(email_body, StandardSalvageClient)
          /\ ~ Contains(email_body, FirmBuyTender)
    /\ Contains(email_body, StandardSalvageClient)
          # Contains(email_body, FirmBuyTenderThirdParty)

(* C21, as stated: every generated body carries exactly one of the two     *)
(* tender-type labels; for third_party it is "Firm Buy Tender (Third       *)
(* Party)" without "Standard Salvage (Client)", for client it is "Standard *)
(* Salvage (Client)" without "Firm Buy Tender".                            *)
C21_ExactlyOneLabel == \A a \in email_args : LabelByLossType(a)

(* The texts the caller supplies and the template repeats.                 *)
CallerTexts(a) ==
    { a.vehicle_info[k] : k \in DOMAIN a.vehicle_info }
        \cup { a.additional_info, << a.loss_type >> }

LabelFree(a) ==
    \A text \in CallerTexts(a) :
        ~ Contains(text, StandardSalvageClient) /\ ~ Contains(text, FirmBuyTender)

(* C21, amended: the same, for every body generated from caller texts      *)
(* (vehicle details, additional information, the loss type string) that   *)
(* contain neither label.                                                  *)
C21_ExactlyOneLabelOfTemplate ==
    \A a \in email_args : LabelFree(a) => LabelByLossType(a)

(* A third-party body with additional information and its own label only.  *)
C21_Witness ==
    \E a \in email_args :
        /\ a.loss_type = "third_party"
        /\ a.additional_info # << >>
        /\ LabelFree(a)
        /\ Contains(email_body, FirmBuyTenderThirdParty)
        /\ Contains(email_body, a.additional_info)

-----------------------------------------------------------------------------
(* valuation_engine.py: ValuationResult.generate_explanation.  The report  *)
(* is a text in words, punctuation apart; a str kept character by          *)
(* character contributes its characters.                                   *)

Abs(n) == IF n < 0 THEN 0 - n ELSE n

IsLetter(c) == \E i \in 1..26 : c = LowerLetters[i] \/ c = UpperLetters[i]

(* policy_type.replace('_', ' ').title()                                   *)
TitleOfType(s) ==
    LET t == [ i \in 1..Len(s) |-> IF s[i] = "_" THEN " " ELSE s[i] ]
    IN  [ i \in 1..Len(t) |->
            IF i = 1 \/ ~ IsLetter(t[i - 1]) THEN UpperChar(t[i]) ELSE LowerChar(t[i]) ]

(* f"${x:,.2f}" of an amount in hundredths                                 *)
FormatCents(c) ==
    << "$" >> \o (IF c < 0 THEN << "-" >> ELSE << >>)
    \o DecimalWords(Abs(c) \div 100)
    \o << ".", DigitWords[((Abs(c) \div 10) % 10) + 1], DigitWords[(Abs(c) % 10) + 1] >>

(* f"{x:.1f}%" of the fraction p[1] / p[2], p[2] > 0                       *)
FormatPercent(p) ==
    LET whole  == Abs(p[1]) \div p[2]
        rest   == Abs(p[1]) % p[2]
        tenths == 10 * whole + (20 * rest + p[2]) \div (2 * p[2])
    IN  (IF p[1] < 0 /\ tenths > 0 THEN << "-" >> ELSE << >>)
        \o DecimalWords(tenths \div 10) \o << ".", DigitWords[(tenths % 10) + 1], "%" >>

(* config.LOSS_TYPES[self.loss_type]                                       *)
LossTypeNameOf(loss_type) ==
    IF loss_type = client THEN << "Client", "Vehicle", "(", "Own", "Damage", ")" >>
    ELSE << "Third", "Party", "Vehicle" >>

(* f"{threshold_pct*100:.0f}% of Policy Value", or "... of Net Value       *)
(* (Policy - Salvage)"                                                     *)
MethodLabel(calculation_method) ==
    DecimalWords(calculation_method.pct) \o << "%" >>
    \o (IF calculation_method.basis = "of Policy Value"
        THEN << "of", "Policy", "Value" >>
        ELSE << "of", "Net", "Value", "(", "Policy", "-", "Salvage", ")" >>)

ExplainedPercent == 70

(* The basis phrase of the rationale chosen by the decision.               *)
RationaleBasisByDecision(self) ==
    IF ~ self.is_total_loss THEN << "policy", "value" >>
    ELSE << "net", "value", "(", "policy", "-", "salvage", ")" >>

RationaleBasis(self) ==
    IF self.loss_type = client THEN << "policy", "value" >>
    ELSE << "net", "value", "(", "policy", "-", "salvage", ")" >>

generate_explanation(self, clock) ==
    << "TOTAL", "LOSS", "EVALUATION", "REPORT", "CASE", "INFORMATION", "VIN", ":" >>
    \o self.vin
    \o << "Evaluation", "Date", ":" >> \o DecimalWords(clock)
    \o << "Loss", "Type", ":" >> \o LossTypeNameOf(self.loss_type)
    \o << "Policy", "Type", ":" >> \o TitleOfType(self.policy_type)
    \o << "FINANCIAL", "BREAKDOWN" >>
    \o << "Policy", "Value", ":" >> \o FormatCents(self.policy_value * 100)
    \o << "Salvage", "Value", ":" >> \o FormatCents(self.salvage_value * 100)
    \o << "Repair", "Quote", ":" >> \o FormatCents(self.repair_quote * 100)
    \o << "CALCULATION", "METHOD", ":" >> \o MethodLabel(self.calculation_method)
    \o << "Threshold", "(" >> \o DecimalWords(ExplainedPercent) \o << "%", ")", ":" >>
    \o FormatCents(self.threshold)
    \o << "Repair", "vs", "Threshold", ":" >> \o FormatPercent(self.threshold_percentage)
    \o << "Decision", "Margin", ":" >> \o FormatCents(Abs(self.decision_margin))
    \o << IF self.decision_margin > 0 THEN "over" ELSE "under", "threshold" >>
    \o << "DECISION", IF self.is_total_loss THEN "TOTAL LOSS" ELSE "REPAIRABLE" >>
    \o << "RATIONALE", "The", "repair", "quote", "of" >>
    \o FormatCents(self.repair_quote * 100)
    \o (IF self.is_total_loss THEN << "exceeds" >> ELSE << "is", "below" >>)
    \o << "the", "threshold", "of" >> \o FormatCents(self.threshold)
    \o << ",", "which", "is" >> \o DecimalWords(ExplainedPercent)
    \o << "%", "of", "the" >> \o RationaleBasis(self) \o << "." >>
    \o (IF self.is_total_loss
        THEN << "This", "vehicle", "is", "classified", "as", "an", "ECONOMIC",
                "TOTAL", "LOSS" >>
        ELSE << "This", "vehicle", "is", "REPAIRABLE" >>)

ExplainCaseInputs ==
    { Case(GoodVin, policy_type, policy_value, salvage_value, repair_quote, loss_type) :
        policy_type \in PolicyTypeInputs, loss_type \in LossTypeInputs,
        policy_value \in { -1000, 1000, 20000 }, salvage_value \in { 0, 5000, 20000 },
        repair_quote \in { -1000, 0, 14000, 14001, 40001 } }

GenerateExplanation ==
    /\ explained = None
    /\ \E c \in ExplainCaseInputs, skip_validation \in BOOLEAN :
          \E r \in Engine(c, skip_validation).result :
              explained' = Some([ result |-> r, text |-> generate_explanation(r, now) ])
    /\ UNCHANGED << engineVars, outcomeVars, vinVars, storageVars, emailVars, summaryVars, apiVars, diskVars, writerVars >>

(* The caller is done with the report.                                     *)
DiscardExplanation ==
    /\ explained # None
    /\ explained' = None
    /\ UNCHANGED << engineVars, outcomeVars, vinVars, storageVars, emailVars, summaryVars, apiVars, diskVars, writerVars >>

NextExplain ==
    \/ GenerateExplanation
    \/ DiscardExplanation

SpecExplain == Init /\ [][NextExplain]_vars

NetValuePhrase == << "net", "value", "(", "policy", "-", "salvage", ")" >>

(* C22: the report of a third-party result names the net-value basis, in   *)
(* the method label ("Net Value", "Policy - Salvage") and in the rationale *)
(* ("net value (policy - salvage)"); the report of a client result names   *)
(* "policy value" as the basis in the rationale and never the net-value    *)
(* phrase; this holds whatever the decision is.                            *)
C22_BasisByLossType ==
    \A e \in explained :
        /\ e.result.loss_type = third_party =>
              /\ Contains(e.text, << "Net", "Value" >>)
              /\ Contains(e.text, << "Policy", "-", "Salvage" >>)
              /\ Contains(e.text, << "of", "the" >> \o NetValuePhrase)
              /\ ~ Contains(e.text, << "of", "the", "policy", "value" >>)
        /\ e.result.loss_type = client =>
              /\ Contains(e.text, << "of", "the", "policy", "value" >>)
              /\ ~ Contains(e.text, NetValuePhrase)
              /\ ~ Contains(e.text, << "Net", "Value" >>)

(* A third-party report of a repairable vehicle naming the net value.      *)
C22_Witness ==
    \E e \in explained :
        /\ e.result.loss_type = third_party
        /\ ~ e.result.is_total_loss
        /\ Contains(e.text, << "is", "below" >>)
        /\ Contains(e.text, NetValuePhrase)

(* The percentage after a phrase of the text, as the words before "%".     *)
PercentShown(text, before, pct) ==
    Contains(text, before \o DecimalWords(pct) \o << "%" >>)

(* C30: the percentage printed in the report, on the Threshold line and in *)
(* the rationale, is the threshold fraction that was applied and that the  *)
(* calculation-method label shows, for every policy type.                  *)
C30_PrintedPercentIsApplied ==
    \A e \in explained :
        LET pct == e.result.calculation_method.pct
        IN  /\ e.result.threshold =
                 pct * (IF e.result.loss_type = client
                        THEN e.result.policy_value
                        ELSE e.result.policy_value - e.result.salvage_value)
            /\ PercentShown(e.text, << "CALCULATION", "METHOD", ":" >>, pct)
            /\ PercentShown(e.text, << "Threshold", "(" >>, pct)
            /\ PercentShown(e.text, << "which", "is" >>, pct)

-----------------------------------------------------------------------------
(* main.py: run_batch calls calculate_batch and then counts the entries of *)
(* the list it returned.                                                   *)

(* The counts with every entry taken as successful.                       *)
BatchSummaryCountingAll(cs, rs) ==
    LET successful   == Len(rs)
        total_losses == Cardinality({ i \in 1..Len(rs) :
                            /\ rs[i].result # None
                            /\ \E d \in rs[i].result : d.decision = "TOTAL LOSS" })
    IN  [ total_cases  |-> Len(cs),
          successful   |-> successful,
          failed       |-> Len(rs) - successful,
          total_losses |-> total_losses,
          repairable   |-> successful - total_losses ]

BatchSummary(cs, rs) ==
    LET successful   == Cardinality({ i \in 1..Len(rs) : rs[i].result # None })
        total_losses == Cardinality({ i \in 1..Len(rs) :
                            /\ rs[i].result # None
                            /\ \E d \in rs[i].result : d.decision = "TOTAL LOSS" })
    IN  [ total_cases  |-> Len(cs),
          successful   |-> successful,
          failed       |-> Len(rs) - successful,
          total_losses |-> total_losses,
          repairable   |-> successful - total_losses ]

(* The summary lines of run_batch, once calculate_batch has returned; an   *)
(* exception of calculate_batch leaves run_batch before them.              *)
RunBatchSummary ==
    /\ batch_pc = "returned"
    /\ summary = None
    /\ summary' = Some(BatchSummary(cases, results))
    /\ UNCHANGED << engineVars, outcomeVars, vinVars, storageVars, emailVars, explainVars, apiVars, diskVars, writerVars >>

(* run_batch is over.                                                      *)
RunBatchReturn ==
    /\ batch_pc \in { "returned", "raised" }
    /\ batch_pc = "returned" => summary # None
    /\ op' = "idle"
    /\ cases' = << >>
    /\ results' = << >>
    /\ batch_pc' = "idle"
    /\ summary' = None
    /\ UNCHANGED << call, skip, ret, vret >>
    /\ UNCHANGED << outcomeVars, vinVars, storageVars, emailVars, explainVars, apiVars, diskVars, writerVars >>

NextRunBatch ==
    \/ CalculateBatch
    \/ BatchIteration
    \/ BatchReturn
    \/ RunBatchSummary
    \/ RunBatchReturn

SpecRunBatch == Init /\ [][NextRunBatch]_vars

(* C23: for every batch output, successful + failed is the number of       *)
(* cases, total losses + repairable is successful, each count is the       *)
(* number of entries of its kind, and the entries are still what           *)
(* calculate_batch produced for their cases.                               *)
C23_CountsAreAReduction ==
    \A s \in summary :
        /\ s.successful + s.failed = Len(cases)
        /\ s.total_losses + s.repairable = s.successful
        /\ s.total_cases = Len(results)
        /\ s.failed = Cardinality({ i \in 1..Len(results) : results[i].result = None })
        /\ s.total_losses = Cardinality({ i \in 1..Len(results) :
                                \E d \in results[i].result : d.decision = "TOTAL LOSS" })
        /\ s.repairable = Cardinality({ i \in 1..Len(results) :
                                \E d \in results[i].result : d.decision = "REPAIRABLE" })
        /\ \A i \in 1..Len(results) :
              /\ results[i].case = cases[i]
              /\ EntryFields(results[i]) = DecisionFields(Engine(cases[i], FALSE))

(* A summary of a batch with a failed case and a total loss.               *)
C23_Witness ==
    \E s \in summary :
        /\ s.failed = 1
        /\ s.total_losses = 1
        /\ s.total_cases = 2

-----------------------------------------------------------------------------
(* skip_validation.                                                        *)

Skipped == op = "calculate_total_loss" /\ skip

ReturnsUnvalidatedDecision ==
    /\ ret.raised = "none"
    /\ ret.result # None
    /\ ret.validation = Some(ValidationResult)
    /\ \A v \in ret.validation : is_valid(v) /\ v.errors = << >> /\ v.warnings = << >>

ValidatesFirst ==
    Validated =>
        (ret.result # None =>
            /\ Validate(TheCall).raised = "none"
            /\ \E v \in Validate(TheCall).outcome :
                  is_valid(v) /\ ret.validation = Some(v))

-----------------------------------------------------------------------------
(* autograp_api.py: RateLimiter and AutoGrapAPI._make_request.  One step   *)
(* is one invocation of _make_request: the rate-limit check and its sleep, *)
(* the HTTP request, and the handling of its outcome up to the recursive   *)
(* call or the return.  The clock now advances by the sleeps and by the    *)
(* time a request takes.  The limiter is the RateLimiter class with a      *)
(* small max_calls and time_window.                                        *)

max_retries == 3

retry_delay == 2

max_calls == 2

time_window == 5

MaxLatency == 1

MaxApiClock == 16

(* RateLimiter.can_call: the calls kept, and the answer                    *)
PruneCalls(calls, clock) == SelectSeq(calls, LAMBDA t : clock - t < time_window)

can_call(calls, clock) == Len(PruneCalls(calls, clock)) < max_calls

SeqMin(s) == CHOOSE t \in { s[i] : i \in 1..Len(s) } : \A i \in 1..Len(s) : t <= s[i]

(* RateLimiter.wait_time                                                   *)
wait_time(calls, clock) ==
    IF can_call(calls, clock) THEN 0
    ELSE SeqMin(PruneCalls(calls, clock)) + time_window - clock

(* The clock when the request goes out: after the sleep, if any, of the    *)
(* rate-limit check.                                                       *)
SendTime(calls, clock) ==
    IF can_call(calls, clock) THEN clock ELSE clock + wait_time(calls, clock)

RECURSIVE Pow2(_)
Pow2(n) == IF n = 0 THEN 1 ELSE 2 * Pow2(n - 1)

(* The retry test with one retry too many.                                 *)
MayRetryInclusive(count) == count <= max_retries

(* if retry_count < self.max_retries                                       *)
MayRetry(count) == count < max_retries

Retryable(o) ==
    \/ o.kind \in { "timeout", "connection_error" }
    \/ o.kind = "response" /\ (o.status = 429 \/ o.status >= 500)

(* The seconds slept before the retry; a Retry-After below 0 stands for    *)
(* any header that int() or time.sleep() refuses.                          *)
RetrySleep(o, count) ==
    IF o.kind = "response" /\ o.status = 429
    THEN IF o.retry_after = None THEN retry_delay * (count + 1)
         ELSE CHOOSE s \in o.retry_after : TRUE
    ELSE IF o.kind = "response" THEN retry_delay * Pow2(count)
    ELSE retry_delay

(* What one invocation does with the outcome o of its request:             *)
(* "return", "retry", or "raise".                                          *)
Handle(o, count) ==
    IF o.kind = "response" /\ o.status = 200
    THEN IF o.body # None THEN "return" ELSE "raise"
    ELSE IF o.kind = "exception" THEN "raise"
    ELSE IF Retryable(o)
    THEN IF ~ MayRetry(count) THEN "raise"
         ELSE IF RetrySleep(o, count) < 0 THEN "raise"
         ELSE "retry"
    ELSE "raise"

StatusInputs == { 200, 404, 429, 500, 503 }

BodyInputs == { None, Some("valuation") }

RetryAfterInputs == { None, Some(1), Some(-1) }

(* A body matters on a 200 and a Retry-After header on a 429 only.        *)
OutcomeInputs ==
    { o \in { [ kind |-> "response", status |-> s, body |-> b, retry_after |-> h ] :
                 s \in StatusInputs, b \in BodyInputs, h \in RetryAfterInputs } :
        /\ o.status # 200 => o.body = None
        /\ o.status # 429 => o.retry_after = None }
    \cup { [ kind |-> k ] : k \in { "timeout", "connection_error", "exception" } }

(* The requests sent within one window ending at the request sent at      *)
(* clock; of more than max_calls + 1 such requests the latest are kept.    *)
RecordSent(times, clock) ==
    LET inWindow == Append(SelectSeq(times, LAMBDA t : clock - t < time_window), clock)
    IN  IF Len(inWindow) > max_calls + 1
        THEN SubSeq(inWindow, Len(inWindow) - max_calls, Len(inWindow))
        ELSE inWindow

(* A public method calls self._make_request(endpoint), retry_count = 0.    *)
CallMakeRequest ==
    /\ api_pc = "idle"
    /\ api_pc' = "request"
    /\ retry_count' = 0
    /\ attempts' = 0
    /\ last' = None
    /\ retried_ok' = TRUE
    /\ api_ret' = [ kind |-> "none" ]
    /\ UNCHANGED << limiter_calls, sent, now >>
    /\ UNCHANGED << file, saved, lookup, engineVars, outcomeVars, vinVars, emailVars, explainVars, summaryVars, diskVars, writerVars >>

(* One invocation of _make_request(..., retry_count).                      *)
MakeRequest ==
    /\ api_pc = "request"
    /\ \E o \in OutcomeInputs, latency \in 0..MaxLatency :
          LET kept     == PruneCalls(limiter_calls, now)
              sendAt   == SendTime(limiter_calls, now)
              endAt    == sendAt + latency
              recorded == IF o.kind = "response" THEN Append(kept, endAt) ELSE kept
              what     == Handle(o, retry_count)
              after    == IF what = "retry" THEN endAt + RetrySleep(o, retry_count)
                          ELSE endAt
          IN  /\ after <= MaxApiClock
              /\ limiter_calls' = recorded
              /\ sent' = RecordSent(sent, sendAt)
              /\ attempts' = attempts + 1
              /\ last' = IF what = "retry" THEN None ELSE Some(o)
              /\ retried_ok' = (retried_ok /\ (what = "retry" => Retryable(o)))
              /\ now' = after
              /\ api_pc' = IF what = "retry" THEN "request" ELSE "done"
              /\ retry_count' = IF what = "retry" THEN retry_count + 1 ELSE retry_count
              /\ api_ret' = IF what = "return" THEN [ kind |-> "returned", body |-> o.body ]
                            ELSE IF what = "raise" THEN [ kind |-> "APIError" ]
                            ELSE api_ret
    /\ UNCHANGED << file, saved, lookup, engineVars, outcomeVars, vinVars, emailVars, explainVars, summaryVars, diskVars, writerVars >>

(* The caller has the answer.                                              *)
MakeRequestReturn ==
    /\ api_pc = "done"
    /\ api_pc' = "idle"
    /\ retry_count' = 0
    /\ attempts' = 0
    /\ last' = None
    /\ retried_ok' = TRUE
    /\ api_ret' = [ kind |-> "none" ]
    /\ UNCHANGED << limiter_calls, sent, now >>
    /\ UNCHANGED << file, saved, lookup, engineVars, outcomeVars, vinVars, emailVars, explainVars, summaryVars, diskVars, writerVars >>

NextApi ==
    \/ CallMakeRequest
    \/ MakeRequest
    \/ MakeRequestReturn

SpecApi == Init /\ [][NextApi]_vars

(* C25: a call of _make_request makes at most max_retries + 1 HTTP         *)
(* attempts; every attempt but the last ended in 429, a 5xx, a timeout or  *)
(* a connection error; the call returns the body on a 200, raises APIError *)
(* at once on any other status, and raises APIError when a retryable       *)
(* outcome meets a used-up retry budget.                                   *)
C25_BoundedRetries ==
    /\ attempts <= max_retries + 1
    /\ retried_ok
    /\ api_pc = "request" => attempts = retry_count /\ api_ret.kind = "none"
    /\ api_pc = "done" =>
          \E o \in last :
              /\ attempts = retry_count + 1
              /\ api_ret.kind \in { "returned", "APIError" }
              /\ (api_ret.kind = "returned") =
                    (o.kind = "response" /\ o.status = 200 /\ o.body # None)
              /\ api_ret.kind = "returned" => api_ret.body = o.body
              /\ (o.kind = "response" /\ ~ Retryable(o) /\ o.status # 200) =>
                     api_ret.kind = "APIError"
              /\ (Retryable(o) /\ RetrySleep(o, retry_count) >= 0) =>
                     /\ api_ret.kind = "APIError"
                     /\ attempts = max_retries + 1

(* A call that used up its retries and ended on a timeout.                 *)
C25_Witness ==
    /\ api_pc = "done"
    /\ api_ret.kind = "APIError"
    /\ attempts = max_retries + 1
    /\ \E o \in last : o.kind = "timeout"

(* C29: at most max_calls HTTP requests are sent within any window of      *)
(* time_window seconds, every attempt counted.                             *)
C29_RequestsWithinLimit == Len(sent) <= max_calls


-----------------------------------------------------------------------------
(* data_storage.py: the operations that only read, on a storage file in    *)
(* any state.  Besides the program's own writes the file may be removed or *)
(* damaged from outside (Damage); the text of a damaged file still holds   *)
(* its records but does not parse.  export_to_csv writes the file named by *)
(* output_path, which may be the storage file itself.                      *)

VinQueryInputs == { GoodVin, upper(strip(PaddedLowerVin)) }

LimitInputs == { 0, 1, 10 }

NoFilter ==
    [ min_policy_value |-> None, max_policy_value |-> None, loss_type |-> None,
      decision |-> None, start_date |-> None, end_date |-> None ]

SearchInputs ==
    { NoFilter,
      [ NoFilter EXCEPT !.min_policy_value = Some(25000) ],
      [ NoFilter EXCEPT !.max_policy_value = Some(20000), !.decision = Some("TOTAL LOSS") ],
      [ NoFilter EXCEPT !.loss_type = Some(third_party), !.decision = Some("") ],
      [ NoFilter EXCEPT !.start_date = Some(1), !.end_date = Some(1) ] }

storage_path == "data/decisions.json"

OutputPathInputs == { storage_path, "output/decisions.csv" }

(* Every operation below begins with self._read_data().                    *)
ReadOnly(name, arg, answer) ==
    /\ storage_call' = StorageCall(name, arg, "none", answer)
    /\ file' = AfterRead
    /\ file_state' = "json"
    /\ IF file_state = "json" THEN UNCHANGED << saved, lookup >>
       ELSE saved' = { } /\ lookup' = None
    /\ UNCHANGED << now, engineVars, outcomeVars, vinVars, emailVars, explainVars, summaryVars, apiVars, writerVars >>

GetDecisionsByVin ==
    \E vin \in VinQueryInputs :
        ReadOnly("get_decisions_by_vin", vin, get_decisions_by_vin(AfterRead, vin))

GetRecentDecisions ==
    \E limit \in LimitInputs :
        ReadOnly("get_recent_decisions", limit, get_recent_decisions(AfterRead, limit))

GetStatistics == ReadOnly("get_statistics", None, get_statistics(AfterRead))

SearchDecisions ==
    \E q \in SearchInputs :
        ReadOnly("search_decisions", q, search_decisions(AfterRead, q))

(* Written to the storage file itself, the rows replace the JSON text.     *)
ExportToCsv ==
    /\ \E output_path \in OutputPathInputs :
          LET done == export_to_csv(AfterRead)
          IN  /\ storage_call' = StorageCall("export_to_csv", output_path, done.raised, done.rows)
              /\ file' = AfterRead
              /\ file_state' = IF done.written /\ output_path = storage_path
                               THEN "corrupt" ELSE "json"
              /\ IF file_state = "json" /\ ~ (done.written /\ output_path = storage_path)
                 THEN UNCHANGED << saved, lookup >>
                 ELSE saved' = { } /\ lookup' = None
    /\ UNCHANGED << now, engineVars, outcomeVars, vinVars, emailVars, explainVars, summaryVars, apiVars, writerVars >>

(* The file is removed, or its text is damaged, by something other than    *)
(* this class.                                                             *)
Damage ==
    /\ file_state = "json"
    /\ \E st \in { "missing", "corrupt" } :
          /\ file_state' = st
          /\ file' = IF st = "missing" THEN << >> ELSE file
    /\ saved' = { }
    /\ lookup' = None
    /\ storage_call' = NoCall
    /\ UNCHANGED << now, engineVars, outcomeVars, vinVars, emailVars, explainVars, summaryVars, apiVars, writerVars >>

NextStorageFile ==
    \/ SaveDecision
    \/ GetDecision
    \/ GetDecisionsByVin
    \/ GetRecentDecisions
    \/ GetStatistics
    \/ SearchDecisions
    \/ ExportToCsv
    \/ ClearAllDecisions
    \/ Tick
    \/ Damage

SpecStorageFile == Init /\ [][NextStorageFile]_vars

ReadOnlyOperations ==
    { "get_decision", "get_decisions_by_vin", "get_recent_decisions",
      "get_statistics", "search_decisions", "export_to_csv" }

(* The decision records the file holds.                                    *)
StoredDecisions(f, st) ==
    IF st = "missing" THEN { } ELSE { f[i] : i \in 1..Len(f) }

(* Every way of looking a decision up finds nothing.                       *)
NothingFound(f, before) ==
    /\ _read_data(f) = << >>
    /\ \A i \in 1..Len(before) : get_decision(f, _read_data(before)[i].id) = None
    /\ get_decision(f, UnknownId) = None
    /\ \A vin \in VinQueryInputs : get_decisions_by_vin(f, vin) = << >>
    /\ \A limit \in LimitInputs : get_recent_decisions(f, limit) = << >>
    /\ \A q \in SearchInputs : search_decisions(f, q) = << >>
    /\ get_statistics(f).total_decisions = 0

(* C26: clear_all_decisions without confirm=True raises ValueError and     *)
(* leaves the storage file as it was; with confirm=True it returns and the *)
(* file is an empty store in which every lookup finds nothing.             *)
C26_ClearNeedsConfirm ==
    storage_call.op = "clear_all_decisions" =>
        IF storage_call.arg
        THEN /\ storage_call.raised = "none"
             /\ file_state = "json"
             /\ NothingFound(file, storage_call.before.file)
        ELSE /\ storage_call.raised = "ValueError"
             /\ Disk = storage_call.before

(* A confirmed clear of a store that held two decisions.                   *)
C26_Witness ==
    /\ storage_call.op = "clear_all_decisions"
    /\ storage_call.arg
    /\ storage_call.before.state = "json"
    /\ Len(storage_call.before.file) = 2
    /\ file = _initialize_storage

(* C27 as stated: after a read-only operation the file holds the decision  *)
(* records it held before, whatever state the file was in.                 *)
C27_ReadsKeepDecisions ==
    storage_call.op \in ReadOnlyOperations =>
        StoredDecisions(file, file_state)
            = StoredDecisions(storage_call.before.file, storage_call.before.state)

ExportedOverStorage ==
    /\ storage_call.op = "export_to_csv"
    /\ storage_call.arg = storage_path
    /\ storage_call.ret > 0

(* C27, amended: a read-only operation on a storage file that parses       *)
(* leaves the file exactly as it was, except export_to_csv of a non-empty  *)
(* store onto the storage file itself; on a file that is missing or does   *)
(* not parse it leaves an empty store, or, for that export, the file it    *)
(* wrote.                                                                  *)
C27_ReadsKeepParseableFile ==
    storage_call.op \in ReadOnlyOperations =>
        /\ (storage_call.before.state = "json" /\ ~ ExportedOverStorage) =>
               Disk = storage_call.before
        /\ (storage_call.before.state # "json") =>
               /\ file = _initialize_storage
               /\ file_state = "json"
        /\ ExportedOverStorage => file_state = "corrupt"

(* A search that returned one of the two decisions of a parseable file.    *)
C27_Witness ==
    /\ storage_call.op = "search_decisions"
    /\ storage_call.before.state = "json"
    /\ Len(storage_call.before.file) = 2
    /\ Len(storage_call.ret) = 1
    /\ Disk = storage_call.before


-----------------------------------------------------------------------------
(* data_storage.py: save_decision run by two callers on one storage file,  *)
(* each a DecisionStorage of its own session or process.  A caller's save  *)
(* is three steps, and the other caller or the clock may act between them: *)
(* the read of the file, the identifier and the append on the caller's own *)
(* copy, the write of that copy.                                           *)

(* data = self._read_data()                                                *)
WriterRead(w) ==
    /\ w_pc[w] = "idle"
    /\ \E decision_data \in DecisionInputs :
          w_arg' = [ w_arg EXCEPT ![w] = Some(decision_data) ]
    /\ w_data' = [ w_data EXCEPT ![w] = _read_data(AfterRead) ]
    /\ w_pc' = [ w_pc EXCEPT ![w] = "read" ]
    /\ file' = AfterRead
    /\ file_state' = "json"
    /\ UNCHANGED << w_id, storage_call, now, saved, lookup >>
    /\ UNCHANGED << engineVars, outcomeVars, vinVars, emailVars, explainVars, summaryVars, apiVars >>

(* decision_id, decision_record, data['decisions'].append(decision_record) *)
WriterAppend(w) ==
    /\ w_pc[w] = "read"
    /\ \E decision_data \in w_arg[w] :
          LET id     == decision_id(now, Len(w_data[w]))
              record == decision_record(id, now, decision_data)
          IN  /\ w_id' = [ w_id EXCEPT ![w] = Some(id) ]
              /\ w_data' = [ w_data EXCEPT ![w] = Append(w_data[w], record) ]
    /\ w_pc' = [ w_pc EXCEPT ![w] = "appended" ]
    /\ UNCHANGED << w_arg, storageVars, diskVars >>
    /\ UNCHANGED << engineVars, outcomeVars, vinVars, emailVars, explainVars, summaryVars, apiVars >>

(* self._write_data(data); return decision_id                              *)
WriterWrite(w) ==
    /\ w_pc[w] = "appended"
    /\ file' = _write_data(w_data[w])
    /\ file_state' = "json"
    /\ w_pc' = [ w_pc EXCEPT ![w] = "done" ]
    /\ UNCHANGED << w_arg, w_data, w_id, storage_call, now, saved, lookup >>
    /\ UNCHANGED << engineVars, outcomeVars, vinVars, emailVars, explainVars, summaryVars, apiVars >>

WriterTick ==
    /\ \E clock \in 0..MaxClock : now' = clock
    /\ UNCHANGED << file, saved, lookup, diskVars, writerVars >>
    /\ UNCHANGED << engineVars, outcomeVars, vinVars, emailVars, explainVars, summaryVars, apiVars >>

NextWriters ==
    \/ \E w \in Writers : WriterRead(w)
    \/ \E w \in Writers : WriterAppend(w)
    \/ \E w \in Writers : WriterWrite(w)
    \/ WriterTick

SpecWriters == Init /\ [][NextWriters]_vars

(* C28: once both callers' save_decision calls have completed, the storage *)
(* file holds the record of each, found under the identifier that caller   *)
(* was given, and the two identifiers differ.                              *)
C28_BothSavesKept ==
    (\A w \in Writers : w_pc[w] = "done") =>
        /\ \A w \in Writers : \E id \in w_id[w], decision_data \in w_arg[w] :
              \E record \in get_decision(file, id) : KeepsData(record, decision_data)
        /\ \A v \in Writers, w \in Writers : v # w => w_id[v] # w_id[w]

=============================================================================
